---- MODULE Spec2Model ----
(***************************************************************************)
(* Model of coverage_report.py: the per-file pipeline                      *)
(*   read_sambamba_input -> check_coverage -> write_output_excels          *)
(* and the command line driver parse_args / main / find_files.             *)
(*                                                                         *)
(* Strings are sequences of text chunks (a chunk is one character, or a    *)
(* literal of the program such as "sambamba_output" that is never cut).    *)
(* An optional cell of a dataframe is a sequence of length <= 1:           *)
(* <<>> is the missing value (None / NaN), <<v>> holds v.                  *)
(* percentage30 values are integers; a mean is the exact fraction          *)
(* sum/count and a median is kept doubled, so no rounding is modelled.     *)
(***************************************************************************)
EXTENDS Integers, Sequences, FiniteSets, TLC

VARIABLES
    pc,                       \* position of the run
    err,                      \* "none", or the exception that ended the run
    out,                      \* the to_excel calls so far, in order
    table,                    \* pipeline: parsed rows of the input file
    threshold,                \* pipeline: the integer threshold
    sambamba_df,              \* pipeline: result of read_sambamba_input
    low_coverage_df,          \* pipeline: row positions check_coverage kept
    low_coverage_genes_list,  \* pipeline: gene list check_coverage returned
    rerun,                    \* pipeline: check_coverage run at another threshold
    argv,                     \* driver: the command line
    fs,                       \* driver: path -> content of the input files
    files,                    \* driver: files_dict items still to process
    reads                     \* driver: paths handed to pd.read_csv, in order

vars == <<pc, err, out, table, threshold, sambamba_df, low_coverage_df,
          low_coverage_genes_list, rerun, argv, fs, files, reads>>

(***************************************************************************)
(* Bounds                                                                  *)
(***************************************************************************)
MaxRows == 3

(***************************************************************************)
(* Generic helpers                                                         *)
(***************************************************************************)
None == <<>>
Some(v) == <<v>>

Range(s) == {s[i] : i \in 1..Len(s)}

SeqsUpTo(S, n) == UNION {[1..k -> S] : k \in 0..n}

Max(a, b) == IF a >= b THEN a ELSE b

\* str.split(sep): the tokens between the separators, one more than separators
Split(s, sep) ==
    LET RECURSIVE go(_, _, _)
        go(i, cur, acc) ==
            IF i > Len(s) THEN Append(acc, cur)
            ELSE IF s[i] = sep THEN go(i + 1, <<>>, Append(acc, cur))
            ELSE go(i + 1, Append(cur, s[i]), acc)
    IN go(1, <<>>, <<>>)

\* str.endswith(suffix)
EndsWith(s, suffix) ==
    /\ Len(s) >= Len(suffix)
    /\ SubSeq(s, Len(s) - Len(suffix) + 1, Len(s)) = suffix

\* Series.str.split(sep, expand=True): one column per token of the longest
\* row, shorter rows padded with None; no column at all for an empty Series.
ExpandWidth(strs, sep) ==
    LET RECURSIVE w(_)
        w(i) == IF i > Len(strs) THEN 0
                ELSE Max(Len(Split(strs[i], sep)), w(i + 1))
    IN w(1)

ExpandCell(str, sep, col) ==
    LET toks == Split(str, sep)
    IN IF col <= Len(toks) THEN Some(toks[col]) ELSE None

\* df[['GeneSymbol', 'Accession']] = frame  raises ValueError
\* ("Columns must be same length as key") unless frame has two columns.
AssignAlwaysFits(strs, sep) == FALSE
SplitColumnsMismatch(strs, sep) == ExpandWidth(strs, sep) # 2

(***************************************************************************)
(* read_sambamba_input                                                     *)
(* A file content is [readable, rows]: readable is FALSE when pd.read_csv  *)
(* or astype raises on it; rows are the data rows [key, percentage30].     *)
(* A dataframe row keeps its pandas index label in `index`.                *)
(***************************************************************************)
KeyColumn(rows) == [i \in 1..Len(rows) |-> rows[i].key]

read_sambamba_input(content) ==
    IF ~content.readable
    THEN [err |-> "RuntimeError", df |-> <<>>]
    ELSE IF SplitColumnsMismatch(KeyColumn(content.rows), ";")
    THEN [err |-> "ValueError", df |-> <<>>]
    ELSE [err |-> "none",
          df |-> [i \in 1..Len(content.rows) |->
                    [index |-> i,
                     key |-> content.rows[i].key,
                     percentage30 |-> content.rows[i].percentage30,
                     GeneSymbol |-> ExpandCell(content.rows[i].key, ";", 1),
                     Accession |-> ExpandCell(content.rows[i].key, ";", 2)]]]

(***************************************************************************)
(* check_coverage                                                          *)
(***************************************************************************)
\* Series.unique(): the distinct values in order of first appearance
Unique(s) ==
    LET RECURSIVE u(_, _)
        u(i, acc) == IF i > Len(s) THEN acc
                     ELSE IF s[i] \in Range(acc) THEN u(i + 1, acc)
                     ELSE u(i + 1, Append(acc, s[i]))
    IN u(1, <<>>)

BelowOrEqual(r, t) == r.percentage30 <= t
Above(r, t) == r.percentage30 > t
Below(r, t) == r.percentage30 < t

low_coverage_exons(df, t) == SelectSeq(df, LAMBDA r : Below(r, t))

check_coverage_list(df, t) ==
    LET exons == low_coverage_exons(df, t)
    IN Unique([i \in 1..Len(exons) |-> exons[i].GeneSymbol])

AllRows(df, genes) == df
IsIn(df, genes) == SelectSeq(df, LAMBDA r : r.GeneSymbol \in Range(genes))

check_coverage(df, t) ==
    LET genes == check_coverage_list(df, t)
    IN [df |-> IsIn(df, genes), list |-> genes]

(***************************************************************************)
(* write_output_excels                                                     *)
(***************************************************************************)
\* code points of the characters the compound keys are made of
Ord(c) == CASE c = "1" -> 49 [] c = "2" -> 50 [] c = ";" -> 59
            [] c = "A" -> 65 [] c = "B" -> 66 [] c = "x" -> 120

\* a < b for strings, as Python and the groupby sort compare them
StrLess(a, b) ==
    LET RECURSIVE lt(_)
        lt(i) == IF i > Len(b) THEN FALSE
                 ELSE IF i > Len(a) THEN TRUE
                 ELSE IF a[i] = b[i] THEN lt(i + 1)
                 ELSE Ord(a[i]) < Ord(b[i])
    IN lt(1)

\* the keys sorted ascending, as groupby(sort=True) orders the groups
SortKeys(s) ==
    LET Insert(sorted, x) ==
            LET k == Cardinality({j \in 1..Len(sorted) : ~StrLess(x, sorted[j])})
            IN SubSeq(sorted, 1, k) \o <<x>> \o SubSeq(sorted, k + 1, Len(sorted))
        RECURSIVE srt(_, _)
        srt(i, acc) == IF i > Len(s) THEN acc ELSE srt(i + 1, Insert(acc, s[i]))
    IN srt(1, <<>>)

\* the values sorted ascending, as the median orders them
SortValues(s) ==
    LET Insert(sorted, x) ==
            LET k == Cardinality({j \in 1..Len(sorted) : sorted[j] <= x})
            IN SubSeq(sorted, 1, k) \o <<x>> \o SubSeq(sorted, k + 1, Len(sorted))
        RECURSIVE srt(_, _)
        srt(i, acc) == IF i > Len(s) THEN acc ELSE srt(i + 1, Insert(acc, s[i]))
    IN srt(1, <<>>)

Sum(s) ==
    LET RECURSIVE sm(_)
        sm(i) == IF i > Len(s) THEN 0 ELSE s[i] + sm(i + 1)
    IN sm(1)

AggMin(s) == CHOOSE v \in Range(s) : \A w \in Range(s) : v <= w
AggMax(s) == CHOOSE v \in Range(s) : \A w \in Range(s) : v >= w
\* the mean as the fraction num/den
AggMean(s) == [num |-> Sum(s), den |-> Len(s)]
\* twice the median: the middle value of the sorted group counted twice,
\* or the sum of the two middle values of an even-sized group
LowerMedian2(s) ==
    LET v == SortValues(s)
    IN 2 * v[(Len(v) + 1) \div 2]
AggMedian2(s) ==
    LET v == SortValues(s)
        n == Len(v)
    IN IF n % 2 = 1 THEN 2 * v[(n + 1) \div 2]
       ELSE v[n \div 2] + v[n \div 2 + 1]

\* the percentage30 values of the rows of df whose compound key is k
GroupValues(df, k) ==
    LET g == SelectSeq(df, LAMBDA r : r.key = k)
    IN [i \in 1..Len(g) |-> g[i].percentage30]

\* groupby('GeneSymbol;Accession'): the distinct keys, sorted
GroupKeys(df) == SortKeys(Unique(KeyColumn(df)))

SummaryReport == <<"_summary_report", ".", "xlsx">>
Report == <<"_report", ".", "xlsx">>

write_output_excels(df, output_file_prefix) ==
    LET keys == GroupKeys(df)
        agg == [i \in 1..Len(keys) |->
                  [key |-> keys[i],
                   LowestCoverage |-> AggMin(GroupValues(df, keys[i])),
                   HighestCoverage |-> AggMax(GroupValues(df, keys[i])),
                   MeanCoveragePerExon |-> AggMean(GroupValues(df, keys[i])),
                   MedianCoveragePerExon2 |-> AggMedian2(GroupValues(df, keys[i]))]]
        summary == [i \in 1..Len(agg) |->
                      [GeneSymbol |-> ExpandCell(agg[i].key, ";", 1),
                       Accession |-> ExpandCell(agg[i].key, ";", 2),
                       LowestCoverage |-> agg[i].LowestCoverage,
                       HighestCoverage |-> agg[i].HighestCoverage,
                       MeanCoveragePerExon |-> agg[i].MeanCoveragePerExon,
                       MedianCoveragePerExon2 |-> agg[i].MedianCoveragePerExon2]]
    IN IF SplitColumnsMismatch(keys, ";")
       THEN [err |-> "ValueError", written |-> <<>>]
       ELSE [err |-> "none",
             written |-> << [path |-> output_file_prefix \o SummaryReport,
                             kind |-> "summary", rows |-> summary],
                            [path |-> output_file_prefix \o Report,
                             kind |-> "detail", rows |-> df] >>]

(***************************************************************************)
(* generate_single_report                                                  *)
(***************************************************************************)
\* open(path) relative to the working directory ".": the content of the
\* file, or an unreadable one when no such file exists (pd.read_csv raises)
Missing == [readable |-> FALSE, rows |-> <<>>]

Open(filesystem, path) ==
    LET parts == Split(path, "/")
        dir == IF Len(parts) = 1 THEN "." ELSE parts[1][1]
        name == parts[Len(parts)]
    IN IF Len(parts) <= 2 /\ dir \in DOMAIN filesystem
                          /\ name \in DOMAIN filesystem[dir]
       THEN filesystem[dir][name]
       ELSE Missing

\* the prefix generate_single_report hands to write_output_excels
ReportPrefix(output_file_prefix) == output_file_prefix \o Report

generate_single_report(filesystem, sambamba_input_file, output_file_prefix, t) ==
    LET rd == read_sambamba_input(Open(filesystem, sambamba_input_file))
        cc == check_coverage(rd.df, t)
        wr == write_output_excels(cc.df, ReportPrefix(output_file_prefix))
    IN IF rd.err # "none" THEN [err |-> rd.err, written |-> <<>>]
       ELSE wr

(***************************************************************************)
(* The pipeline on one table, stage by stage                               *)
(***************************************************************************)
CompoundKeys == { <<"A", ";", "1">>, <<"A", ";", "2">>, <<"B", ";", "1">>,
                  <<"B">>, <<"A", ";", "1", ";", "x">> }
Percentages == {50, 80, 100}
Thresholds == {80, 100}

RawRows == [key : CompoundKeys, percentage30 : Percentages]
Tables == {[readable |-> TRUE, rows |-> r] : r \in SeqsUpTo(RawRows, MaxRows)}
              \cup {Missing}

PipelinePrefix == <<"p">>
NoArgs == [i |-> None, D |-> None, o |-> None, t |-> 0]

InitPipeline ==
    /\ pc = "read"
    /\ err = "none"
    /\ out = <<>>
    /\ table \in Tables
    /\ threshold \in Thresholds
    /\ sambamba_df = <<>>
    /\ low_coverage_df = <<>>
    /\ low_coverage_genes_list = <<>>
    /\ rerun = <<>>
    /\ argv = NoArgs
    /\ fs = <<>>
    /\ files = <<>>
    /\ reads = <<>>

DriverVars == <<argv, fs, files, reads>>

ReadInput ==
    /\ pc = "read"
    /\ LET rd == read_sambamba_input(table)
       IN /\ err' = rd.err
          /\ sambamba_df' = rd.df
          /\ pc' = IF rd.err = "none" THEN "check" ELSE "failed"
    /\ UNCHANGED <<out, table, threshold, low_coverage_df,
                   low_coverage_genes_list, rerun, DriverVars>>

CheckCoverage ==
    /\ pc = "check"
    /\ LET cc == check_coverage(sambamba_df, threshold)
       IN /\ low_coverage_df' = cc.df
          /\ low_coverage_genes_list' = cc.list
    /\ pc' = "write"
    /\ UNCHANGED <<err, out, table, threshold, sambamba_df, rerun, DriverVars>>

WriteOutput ==
    /\ pc = "write"
    /\ LET wr == write_output_excels(low_coverage_df, ReportPrefix(PipelinePrefix))
       IN /\ err' = wr.err
          /\ out' = out \o wr.written
          /\ pc' = IF wr.err = "none" THEN "done" ELSE "failed"
    /\ UNCHANGED <<table, threshold, sambamba_df, low_coverage_df,
                   low_coverage_genes_list, rerun, DriverVars>>

\* check_coverage called again on the same dataframe with another threshold
Recheck ==
    /\ pc = "write"
    /\ \E t2 \in Thresholds :
         LET cc == check_coverage(sambamba_df, t2)
         IN rerun' = << [threshold |-> t2, df |-> cc.df, list |-> cc.list] >>
    /\ pc' = "rechecked"
    /\ UNCHANGED <<err, out, table, threshold, sambamba_df, low_coverage_df,
                   low_coverage_genes_list, DriverVars>>

NextPipeline == ReadInput \/ CheckCoverage \/ WriteOutput \/ Recheck

SpecPipeline == InitPipeline /\ [][NextPipeline]_vars

(***************************************************************************)
(* parse_args, find_files, main                                            *)
(***************************************************************************)
\* an option counts as given when it is on the command line, whatever its value
Given(opt) == opt # None
\* Python truth of an optional string: neither None nor ""
Truthy(opt) == opt # None /\ opt[1] # <<>>
\* "{x}" in an f-string
Format(opt) == IF opt = None THEN <<"None">> ELSE opt[1]

\* the required mutually exclusive group of -i and -D
RequiredOnly(a) == Given(a.i) \/ Given(a.D)
ParseArgsOk(a) == Given(a.i) # Given(a.D)

SambambaTxt == <<"sambamba_output", ".", "txt">>
SambambaTsv == <<"sambamba_output", ".", "tsv">>

Qualifies(file) == EndsWith(file, SambambaTxt) \/ EndsWith(file, SambambaTsv)

\* os.listdir(directory): the names in the directory, in any order
Listings(filesystem, directory) ==
    LET names == DOMAIN filesystem[directory[1]]
    IN {l \in [1..Cardinality(names) -> names] : Range(l) = names}

\* files_dict.items() for one listing: file -> file.split('.')[0]
find_files(listing) ==
    LET kept == SelectSeq(listing, Qualifies)
    IN [k \in 1..Len(kept) |->
          [file |-> kept[k], file_prefix |-> Split(kept[k], ".")[1]]]

\* the output prefix of single-file mode
single_file_prefix(a) ==
    IF a.o = None THEN Split(a.i[1], ".")[1]
    ELSE IF Truthy(a.o) THEN a.o[1] \o Split(a.i[1], ".")[1]
    ELSE a.o[1]

\* an exception in generate_single_report leaves the for loop and main
SkipFailed(items, e) == [pc |-> "loop", files |-> Tail(items)]
LoopAfter(items, e) ==
    IF e = "none" THEN [pc |-> "loop", files |-> Tail(items)]
    ELSE [pc |-> "failed", files |-> items]

(***************************************************************************)
(* The driver: command lines and directory contents                        *)
(***************************************************************************)
MaxFiles == 3

FileA_txt == <<"a", ".", "sambamba_output", ".", "txt">>
FileA_tsv == <<"a", ".", "sambamba_output", ".", "tsv">>
FileB_tsv == <<"b_", "sambamba_output", ".", "tsv">>
Notes_txt == <<"notes", ".", "txt">>
FileNames == {FileA_txt, FileA_tsv, FileB_tsv, Notes_txt}

A1 == <<"A", ";", "1">>
LowTable == [readable |-> TRUE,
             rows |-> << [key |-> A1, percentage30 |-> 80],
                         [key |-> A1, percentage30 |-> 100] >>]
FullTable == [readable |-> TRUE, rows |-> << [key |-> A1, percentage30 |-> 100] >>]
FileContents == {LowTable, FullTable, Missing}

Directories(names, contents) ==
    UNION {[S -> contents] : S \in {T \in SUBSET names : Cardinality(T) <= MaxFiles}}

FileSystems ==
    {("." :> cwd) @@ ("d" :> sub) :
        cwd \in Directories(FileNames, FileContents),
        sub \in Directories({FileA_txt, FileB_tsv, Notes_txt}, {LowTable})}

CommandLines ==
    [i : {None, Some(<<>>), Some(FileA_txt), Some(<<"d", "/">> \o FileA_txt)},
     D : {None, Some(<<>>), Some(<<".">>), Some(<<"d">>)},
     o : {None, Some(<<>>), Some(<<"p_">>)},
     t : {100}]

InitMain ==
    /\ pc = "parse_args"
    /\ err = "none"
    /\ out = <<>>
    /\ table = Missing
    /\ threshold = 0
    /\ sambamba_df = <<>>
    /\ low_coverage_df = <<>>
    /\ low_coverage_genes_list = <<>>
    /\ rerun = <<>>
    /\ argv \in CommandLines
    /\ fs \in FileSystems
    /\ files = <<>>
    /\ reads = <<>>

PipelineVars == <<table, threshold, sambamba_df, low_coverage_df,
                  low_coverage_genes_list, rerun>>

\* parser.parse_args(): argparse prints the usage and exits with status 2
ParseArgs ==
    /\ pc = "parse_args"
    /\ IF ParseArgsOk(argv)
       THEN pc' = "main" /\ err' = err
       ELSE pc' = "exit" /\ err' = "usage"
    /\ UNCHANGED <<out, argv, fs, files, reads, PipelineVars>>

\* main, directory branch: find_files, then the for loop
MainDirectory ==
    /\ pc = "main"
    /\ Truthy(argv.D)
    /\ \E listing \in Listings(fs, argv.D[1]) : files' = find_files(listing)
    /\ pc' = "loop"
    /\ UNCHANGED <<err, out, argv, fs, reads, PipelineVars>>

\* one iteration of the for loop over files.items()
LoopIteration ==
    /\ pc = "loop"
    /\ files # <<>>
    /\ LET item == Head(files)
           gs == generate_single_report(fs, item.file,
                    Format(argv.o) \o item.file_prefix, argv.t)
           after == LoopAfter(files, gs.err)
       IN /\ reads' = Append(reads, item.file)
          /\ out' = out \o gs.written
          /\ err' = IF gs.err = "none" THEN err ELSE gs.err
          /\ pc' = after.pc
          /\ files' = after.files
    /\ UNCHANGED <<argv, fs, PipelineVars>>

LoopExit ==
    /\ pc = "loop"
    /\ files = <<>>
    /\ pc' = "done"
    /\ UNCHANGED <<err, out, argv, fs, files, reads, PipelineVars>>

\* main, single-file branch
MainSingleFile ==
    /\ pc = "main"
    /\ ~Truthy(argv.D)
    /\ Truthy(argv.i)
    /\ LET gs == generate_single_report(fs, argv.i[1],
                    single_file_prefix(argv), argv.t)
       IN /\ reads' = Append(reads, argv.i[1])
          /\ out' = out \o gs.written
          /\ err' = gs.err
          /\ pc' = IF gs.err = "none" THEN "done" ELSE "failed"
    /\ UNCHANGED <<argv, fs, files, PipelineVars>>

\* main, else branch: raise RuntimeError
MainNoInput ==
    /\ pc = "main"
    /\ ~Truthy(argv.D)
    /\ ~Truthy(argv.i)
    /\ err' = "RuntimeError"
    /\ pc' = "failed"
    /\ UNCHANGED <<out, argv, fs, files, reads, PipelineVars>>

NextMain ==
    \/ ParseArgs
    \/ MainDirectory
    \/ LoopIteration
    \/ LoopExit
    \/ MainSingleFile
    \/ MainNoInput

SpecMain == InitMain /\ [][NextMain]_vars

(***************************************************************************)
(* Properties of the pipeline (checked under SpecPipeline)                 *)
(***************************************************************************)
ReadOk == pc # "read" /\ sambamba_df # <<>>
ReadFailed == pc = "failed" /\ sambamba_df = <<>>
Checked == ReadOk /\ pc # "check"
Written(kind) == {i \in 1..Len(out) : out[i].kind = kind}

LowGene(df, g, t) ==
    \E j \in 1..Len(df) : df[j].GeneSymbol = g /\ df[j].percentage30 < t

\* C1: the row-level subset check_coverage returns (and the detailed report
\* written from it) holds exactly the input rows whose GeneSymbol has at
\* least one row with percentage30 strictly below the threshold: all rows of
\* such a gene, none of any other gene, each once.
C1_GeneLevelSubset ==
    Checked =>
      /\ \A i \in 1..Len(sambamba_df) :
            (sambamba_df[i] \in Range(low_coverage_df))
               <=> LowGene(sambamba_df, sambamba_df[i].GeneSymbol, threshold)
      /\ Range(low_coverage_df) \subseteq Range(sambamba_df)
      /\ Cardinality(Range(low_coverage_df)) = Len(low_coverage_df)
      /\ \A w \in Written("detail") : out[w].rows = low_coverage_df

\* a low gene keeps a row at or above the threshold while another gene,
\* all of whose rows are at or above it, is left out
C1_Witness ==
    /\ Checked
    /\ \E r \in Range(low_coverage_df) : r.percentage30 >= threshold
    /\ \E r \in Range(sambamba_df) : r \notin Range(low_coverage_df)

\* C7: threshold monotonicity of check_coverage: on the same table, the gene
\* list and the row subset at the lower of two thresholds are contained in
\* those at the higher one.
C7_Monotone ==
    rerun # <<>> =>
      LET r == rerun[1]
      IN /\ r.threshold <= threshold =>
              /\ Range(r.list) \subseteq Range(low_coverage_genes_list)
              /\ Range(r.df) \subseteq Range(low_coverage_df)
         /\ threshold <= r.threshold =>
              /\ Range(low_coverage_genes_list) \subseteq Range(r.list)
              /\ Range(low_coverage_df) \subseteq Range(r.df)

\* the lower threshold selects some genes, the higher one strictly more
C7_Witness ==
    /\ rerun # <<>>
    /\ rerun[1].threshold < threshold
    /\ rerun[1].list # <<>>
    /\ Range(rerun[1].list) # Range(low_coverage_genes_list)
    /\ Range(rerun[1].df) # Range(low_coverage_df)

\* the summary report, once written
Summary == out[CHOOSE w \in Written("summary") : TRUE].rows

\* the rows of the low-coverage subset of one gene identity
GroupOf(g, a) ==
    {i \in 1..Len(low_coverage_df) :
        /\ low_coverage_df[i].GeneSymbol = g
        /\ low_coverage_df[i].Accession = a}
Identities ==
    {<<low_coverage_df[i].GeneSymbol, low_coverage_df[i].Accession>> :
        i \in 1..Len(low_coverage_df)}
P30(i) == low_coverage_df[i].percentage30

SumOver(S) ==
    LET RECURSIVE so(_)
        so(T) == IF T = {} THEN 0
                 ELSE LET i == CHOOSE i \in T : TRUE
                      IN P30(i) + so(T \ {i})
    IN so(S)

\* v is the k-th smallest value of the group S (k = 1 is the minimum)
IsOrderStat(S, v, k) ==
    /\ \E i \in S : P30(i) = v
    /\ Cardinality({i \in S : P30(i) < v}) < k
    /\ k <= Cardinality({i \in S : P30(i) <= v})

\* a fraction rounded to two decimals, in hundredths
Round2(f) == (200 * f.num + f.den) \div (2 * f.den)

C3_EmptySubsetWritten ==
    /\ ReadOk
    /\ pc \in {"done", "failed"}
    /\ \A i \in 1..Len(sambamba_df) : sambamba_df[i].percentage30 >= threshold
    => /\ err = "none"
       /\ Written("summary") # {} /\ Written("detail") # {}
       /\ \A w \in 1..Len(out) : out[w].rows = <<>>

NumSemicolons(key) == Cardinality({i \in 1..Len(key) : key[i] = ";"})
Malformed(key) == NumSemicolons(key) # 1

\* C9 as stated: whenever a compound key does not split into exactly two
\* tokens, read_sambamba_input still returns the table, that row with a
\* missing or empty Accession.
C9_NeverFails ==
    /\ pc # "read"
    /\ table.readable
    /\ \E i \in 1..Len(table.rows) : Malformed(table.rows[i].key)
    => /\ ReadOk
       /\ \A i \in 1..Len(sambamba_df) :
             Malformed(sambamba_df[i].key)
                => sambamba_df[i].Accession \in {None, Some(<<>>)}

\* C9 amended: on a table pandas can parse, read_sambamba_input raises
\* ValueError exactly when no row has a semicolon (an empty table included)
\* or some row has more than one; otherwise it returns every row, a row
\* without a semicolon with its whole key as GeneSymbol and a missing Accession.
C9_FailsUnlessWidthTwo ==
    pc # "read" /\ table.readable =>
      LET keys == KeyColumn(table.rows)
          fits == /\ \E i \in 1..Len(keys) : NumSemicolons(keys[i]) = 1
                  /\ \A i \in 1..Len(keys) : NumSemicolons(keys[i]) <= 1
      IN /\ ~fits => ReadFailed /\ err = "ValueError"
         /\ fits =>
              /\ ReadOk
              /\ KeyColumn(sambamba_df) = keys
              /\ \A i \in 1..Len(keys) :
                    NumSemicolons(keys[i]) = 0 =>
                       /\ sambamba_df[i].GeneSymbol = Some(keys[i])
                       /\ sambamba_df[i].Accession = None

\* both outcomes of a key without a semicolon
C9_Witness ==
    /\ ReadOk
    /\ \E i \in 1..Len(sambamba_df) :
          NumSemicolons(sambamba_df[i].key) = 0 /\ sambamba_df[i].Accession = None

DirectoryMode == ParseArgsOk(argv) /\ Truthy(argv.D)
SingleFileMode == ParseArgsOk(argv) /\ Truthy(argv.i)
PathsWritten == {out[w].path : w \in 1..Len(out)}
InputStem(path) == Split(path, ".")[1]

\* C4: a processed input file gets exactly two output files, named
\* <prefix>_report.xlsx (detail) and <prefix>_summary_report.xlsx (summary),
\* <prefix> being the input filename up to its extension when no prefix is
\* given and the given prefix combined with it otherwise (single-file mode).
C4_TwoFilesNamedByPrefix ==
    SingleFileMode /\ pc = "done" =>
      LET prefix == IF argv.o = None THEN InputStem(argv.i[1])
                    ELSE argv.o[1] \o InputStem(argv.i[1])
      IN /\ Len(out) = 2
         /\ \E d, m \in 1..Len(out) :
               /\ out[d].kind = "detail"
               /\ out[d].path = prefix \o <<"_report", ".", "xlsx">>
               /\ out[m].kind = "summary"
               /\ out[m].path = prefix \o <<"_summary_report", ".", "xlsx">>

\* the file of directory `dir` that a path handed to pd.read_csv opens
Opens(path, dir, name) ==
    path = (IF dir = <<".">> THEN <<>> ELSE dir \o <<"/">>) \o name

\* C5: directory mode runs the pipeline once on each file of the directory
\* whose name ends with sambamba_output.txt or sambamba_output.tsv, read from
\* that directory, and on no other file; N such files give N pairs of reports.
C5_EachQualifyingFileOnce ==
    DirectoryMode /\ pc = "done" =>
      LET dir == argv.D[1]
          qualifying == {n \in DOMAIN fs[dir[1]] :
                            \/ EndsWith(n, <<"sambamba_output", ".", "txt">>)
                            \/ EndsWith(n, <<"sambamba_output", ".", "tsv">>)}
      IN /\ Len(reads) = Cardinality(qualifying)
         /\ \A n \in qualifying : \E r \in 1..Len(reads) : Opens(reads[r], dir, n)
         /\ Cardinality(PathsWritten) = 2 * Cardinality(qualifying)

\* C6: with neither or both of -i and -D given the program ends in the
\* usage error of the argument parser before any file is read or written;
\* input is processed only when exactly one of the two is given.
C6_ExactlyOneInput ==
    /\ pc # "parse_args" /\ (argv.i # None) = (argv.D # None) =>
          /\ pc = "exit"
          /\ err = "usage"
          /\ reads = <<>> /\ out = <<>> /\ files = <<>>
    /\ pc \in {"main", "loop", "done"} \/ reads # <<>> \/ out # <<>> =>
          (argv.i # None) # (argv.D # None)

\* both options given, with input files waiting in the directory
C6_Witness ==
    /\ pc = "exit"
    /\ argv.i # None /\ argv.D # None
    /\ Truthy(argv.i) /\ Truthy(argv.D)
    /\ fs[argv.D[1][1]] # <<>>

\* C8: directory mode handles the files one at a time and a failure on one
\* file ends the run: the failed file is the last one read, no file after it
\* in the iteration order is read or written for, no file is read twice, and
\* the reports of the files before it stay written (two per earlier file).
C8_FailureAbortsRun ==
    DirectoryMode /\ pc \in {"loop", "done", "failed"} =>
      /\ Cardinality(Range(reads)) = Len(reads)
      /\ err # "none" =>
           /\ pc = "failed"
           /\ files # <<>>
           /\ reads[Len(reads)] = files[1].file
           /\ \A k \in 2..Len(files) : files[k].file \notin Range(reads)
           /\ Len(out) = 2 * (Len(reads) - 1)
           /\ \A r \in 1..Len(reads) - 1 :
                 /\ out[2 * r - 1].path = Format(argv.o) \o InputStem(reads[r])
                                            \o Report \o SummaryReport
                 /\ out[2 * r].path = Format(argv.o) \o InputStem(reads[r])
                                            \o Report \o Report
      /\ err = "none" => Len(out) = 2 * Len(reads)

\* the second of three files fails: one pair written, one file never read
C8_Witness ==
    /\ DirectoryMode
    /\ pc = "failed"
    /\ Len(reads) = 2
    /\ Len(files) = 2
    /\ Len(out) = 2

====
